---- MODULE Spec2Model ----
(***************************************************************************)
(* A model of modules/video_filter/trim.c (VLC 3.0.20): the Create entry   *)
(* point, Trim (bootstrap, seek, packet relay, finalisation), parse_time   *)
(* and cleanup.  The demux/mux library is the environment: each of its     *)
(* calls is a nondeterministic choice over the results the call can give.  *)
(* Stream indices are 0-based as in the C code; sequences are 1-based, so  *)
(* stream i is element i + 1.                                              *)
(***************************************************************************)
EXTENDS Integers, Sequences, FiniteSets, TLC

(***************************************************************************)
(* Bounds of the model.                                                    *)
(***************************************************************************)
\* Width in bits of the timestamp integers (int64_t in the code, scaled
\* down).  Source timestamps stay far from the limits, as they do in real
\* files, so only arithmetic on the AV_NOPTS_VALUE sentinel can overflow.
IntBits == 5
\* Largest timestamp a source packet carries (in stream time-base units).
MaxTs == 1
\* Number of packets written before the model lets no further one through.
MaxWrites == 4

IntMin == -(2 ^ (IntBits - 1))
IntMax == (2 ^ (IntBits - 1)) - 1
AV_NOPTS_VALUE == IntMin

\* Two's-complement wrap of a result into the integer width.
Wrap(x) == ((x - IntMin) % (2 ^ IntBits)) + IntMin
InRange(x) == IntMin <= x /\ x <= IntMax

(***************************************************************************)
(* Strings are sequences of one-character strings.                         *)
(***************************************************************************)
Digits == <<"0", "1", "2", "3", "4", "5", "6", "7", "8", "9">>
IsDigit(c) == \E d \in 1..10 : Digits[d] = c
DigitVal(c) == (CHOOSE d \in 1..10 : Digits[d] = c) - 1
IsSpace(c) == c = " "

RECURSIVE DecDigits(_)
DecDigits(n) ==
    IF n < 10 THEN <<Digits[n + 1]>>
    ELSE DecDigits(n \div 10) \o <<Digits[(n % 10) + 1]>>

\* C integer division and remainder (truncation toward zero).
CDiv(a, b) == IF a >= 0 THEN a \div b ELSE -((-a) \div b)
CMod(a, b) == a - b * CDiv(a, b)

\* printf("%02d", n): decimal, zero-padded to a minimum width of two.
Fmt02d(n) ==
    IF n < 0 THEN <<"-">> \o DecDigits(-n)
    ELSE LET b == DecDigits(n)
         IN  IF Len(b) < 2 THEN <<"0">> \o b ELSE b

\* snprintf(str, 16, "%02d:%02d", t / 60, t % 60)
FormatTime(t) == Fmt02d(CDiv(t, 60)) \o <<":">> \o Fmt02d(CMod(t, 60))

RECURSIVE SkipSpace(_, _)
SkipSpace(s, i) ==
    IF i <= Len(s) /\ IsSpace(s[i]) THEN SkipSpace(s, i + 1) ELSE i

RECURSIVE ScanDigits(_, _, _)
\* Consumes the run of digits at s[i..], accumulating onto acc.
ScanDigits(s, i, acc) ==
    IF i <= Len(s) /\ IsDigit(s[i])
    THEN ScanDigits(s, i + 1, acc * 10 + DigitVal(s[i]))
    ELSE [val |-> acc, next |-> i]

\* One "%d" conversion of sscanf starting at s[i]: leading white space is
\* skipped, an optional sign is read, then at least one digit.
ScanInt(s, i) ==
    LET j == SkipSpace(s, i)
        signed == j <= Len(s) /\ s[j] \in {"-", "+"}
        k == IF signed THEN j + 1 ELSE j
        d == ScanDigits(s, k, 0)
    IN  IF d.next = k
        THEN [ok |-> FALSE, val |-> 0, next |-> k]
        ELSE [ok |-> TRUE,
              val |-> IF signed /\ s[j] = "-" THEN -d.val ELSE d.val,
              next |-> d.next]

\* sscanf(time_str, "%d:%d", &m, &s): the number of conversions done, with
\* the converted values.  Whatever follows the second field is not read.
Sscanf(s) ==
    LET a == ScanInt(s, 1)
    IN  IF ~a.ok THEN [n |-> 0, m |-> 0, s |-> 0]
        ELSE IF ~(a.next <= Len(s) /\ s[a.next] = ":")
             THEN [n |-> 1, m |-> a.val, s |-> 0]
             ELSE LET b == ScanInt(s, a.next + 1)
                  IN  IF ~b.ok THEN [n |-> 1, m |-> a.val, s |-> 0]
                      ELSE [n |-> 2, m |-> a.val, s |-> b.val]

\* Variant of parse_time that takes the first field for the seconds.
parse_time_FieldsSwapped(time_str) ==
    LET r == Sscanf(time_str)
    IN  IF r.n # 2 THEN [ok |-> FALSE, val |-> 0]
        ELSE [ok |-> TRUE, val |-> r.m + r.s * 60]

\* parse_time: ok is FALSE where the code calls exit(1).
parse_time(time_str) ==
    LET r == Sscanf(time_str)
    IN  IF r.n # 2 THEN [ok |-> FALSE, val |-> 0]
        ELSE [ok |-> TRUE, val |-> r.m * 60 + r.s]

(***************************************************************************)
(* Inputs.                                                                 *)
(***************************************************************************)
\* Largest value of the "start" and "end" configuration integers.
MaxSec == 2
CfgTimes == 0..MaxSec

\* Time strings given to Trim when it is called on its own.
TimeStrings ==
    { <<"0", "0", ":", "0", "1">>,
      <<"0", ":", "1", "x">>,
      <<"1", "0">>,
      <<":", "0", "1">> }

Stream(kind, den) == [codec_type |-> kind, time_base |-> [num |-> 1, den |-> den]]

\* The stream topologies of the source containers (in->streams).
Sources ==
    { <<Stream("video", 1)>>,
      <<Stream("audio", 1)>>,
      <<Stream("video", 1), Stream("audio", 2)>>,
      <<Stream("video", 2), Stream("video", 1)>>,
      <<Stream("other", 1), Stream("video", 1)>> }

\* The input and output paths of a run: the input by the streams of the
\* container it names, the output by whether the format its name selects
\* has AVFMT_NOFILE.
Paths ==
    { [input |-> src, nofile |-> FALSE] : src \in Sources }
    \cup { [input |-> <<Stream("video", 1)>>, nofile |-> TRUE] }

TsValues == (-1)..MaxTs
Timestamps == TsValues \cup {AV_NOPTS_VALUE}
Durations == {2}

\* The packets av_read_frame can deliver for stream i of kind kind.  A
\* source packet that has both timestamps is never presented before it is
\* decoded; audio packets are not reordered (pts = dts) and each is a key
\* packet; of the packets of other streams, which line 185 drops unread,
\* one stands for all.
StreamPackets(i, kind) ==
    { p \in [stream_index : {i}, pts : Timestamps, dts : Timestamps,
             flags_key : BOOLEAN, duration : Durations] :
        /\ (p.pts # AV_NOPTS_VALUE /\ p.dts # AV_NOPTS_VALUE) => p.pts >= p.dts
        /\ kind = "audio" => (p.pts = p.dts /\ p.flags_key)
        /\ kind = "other" => (p.pts = 0 /\ p.dts = 0 /\ p.flags_key) }

\* The packets av_read_frame can deliver for a source with these streams.
Packets(streams) ==
    UNION { StreamPackets(i - 1, streams[i].codec_type) : i \in 1..Len(streams) }

NoPacket == [stream_index |-> -1]

(***************************************************************************)
(* State.                                                                  *)
(***************************************************************************)
VARIABLES
    pc,                  \* position in Create / Trim
    caller,              \* "none", "Create" or "Trim" (Trim called on its own)
    cfg,                 \* Create's start_time and end_time integers
    args,                \* Trim's start_time and end_time strings
    paths,               \* Trim's input and output
    start_sec, end_sec,  \* Trim's parsed window
    in_ctx,              \* "NULL", "open" or "closed": the input container
    in_streams,          \* in->streams
    out_ctx,             \* "NULL", "allocated" or "freed": the output container
    out_pb,              \* "NULL", "open" or "closed": out->pb
    nofile,              \* out->oformat->flags & AVFMT_NOFILE
    out_streams,         \* out->streams: the source index each was created from
    video_stream_idx,
    stream_ctx,
    got_video_keyframe,
    last_video_dts,
    trim_ret,            \* Trim's return value, -1 while it has not returned
    create_ret,          \* Create's return value, "none" while it has not returned
    log,                 \* the library calls on the containers, in order
    last_iter,           \* what the last iteration of the read loop did
    lastOut,             \* the last packet written, with the packet it came from
    nOut,                \* per source stream, the number of packets written
    emitDts,             \* the last defined dts written on stream video_stream_idx
                         \* (<<>> before the first)
    retrim               \* a second Trim reading the packets as they are written

vars == <<pc, caller, cfg, args, paths, start_sec, end_sec, in_ctx, in_streams,
          out_ctx, out_pb, nofile, out_streams, video_stream_idx, stream_ctx,
          got_video_keyframe, last_video_dts, trim_ret, create_ret,
          log, last_iter, lastOut, nOut, emitDts, retrim>>

relayVars == <<video_stream_idx, stream_ctx, got_video_keyframe, last_video_dts,
               last_iter, lastOut, nOut, emitDts, retrim>>
containerVars == <<in_ctx, in_streams, out_ctx, out_pb, nofile, out_streams, log>>
callVars == <<caller, cfg, args, paths, start_sec, end_sec>>

\* The second Trim before it has read anything, and once its output is no
\* longer the packets it read (nothing more is recorded of it then).
NoRetrim == [same |-> TRUE, stream_ctx |-> <<>>,
             got_video_keyframe |-> FALSE, last_video_dts |-> AV_NOPTS_VALUE]
RetrimDiverged == [NoRetrim EXCEPT !.same = FALSE]

Init ==
    /\ pc = "idle"
    /\ caller = "none"
    /\ cfg = [start_time |-> 0, end_time |-> 0]
    /\ args = [start_time |-> <<>>, end_time |-> <<>>]
    /\ paths = [input |-> <<>>, nofile |-> FALSE]
    /\ start_sec = 0
    /\ end_sec = 0
    /\ in_ctx = "NULL"
    /\ in_streams = <<>>
    /\ out_ctx = "NULL"
    /\ out_pb = "NULL"
    /\ nofile = FALSE
    /\ out_streams = <<>>
    /\ video_stream_idx = -1
    /\ stream_ctx = <<>>
    /\ got_video_keyframe = FALSE
    /\ last_video_dts = AV_NOPTS_VALUE
    /\ trim_ret = -1
    /\ create_ret = "none"
    /\ log = <<>>
    /\ last_iter = "none"
    /\ lastOut = NoPacket
    /\ nOut = <<>>
    /\ emitDts = <<>>
    /\ retrim = NoRetrim

(***************************************************************************)
(* Create (lines 48-88) and the call of Trim.                              *)
(***************************************************************************)
\* Create's window check (line 56).
CreateRejects(start_time, end_time) == start_time >= end_time

\* Create reads "start" and "end" (lines 53-54), rejects an empty window
\* (lines 56-59), reads the two paths (lines 62-70), formats the times
\* (lines 73-75) and calls Trim (line 77).
Create(start_time, end_time, paths_given, io) ==
    /\ pc = "idle"
    /\ caller' = "Create"
    /\ cfg' = [start_time |-> start_time, end_time |-> end_time]
    /\ IF CreateRejects(start_time, end_time) \/ ~paths_given
       THEN /\ pc' = "done"
            /\ create_ret' = "VLC_EGENERIC"
            /\ UNCHANGED <<args, paths>>
       ELSE /\ pc' = "Trim"
            /\ args' = [start_time |-> FormatTime(start_time),
                        end_time |-> FormatTime(end_time)]
            /\ paths' = io
            /\ UNCHANGED create_ret
    /\ UNCHANGED <<start_sec, end_sec, trim_ret>>
    /\ UNCHANGED containerVars
    /\ UNCHANGED relayVars

\* Trim called with two time strings of its own (its declared interface,
\* line 26).
CallTrim(start_time, end_time, io) ==
    /\ pc = "idle"
    /\ caller' = "Trim"
    /\ args' = [start_time |-> start_time, end_time |-> end_time]
    /\ paths' = io
    /\ pc' = "Trim"
    /\ UNCHANGED <<cfg, start_sec, end_sec, trim_ret, create_ret>>
    /\ UNCHANGED containerVars
    /\ UNCHANGED relayVars

\* Variant of TrimRejects that lets an empty window (start = end) through.
TrimRejects_Strict(s, e) == s > e

\* Trim's window check (line 109).
TrimRejects(s, e) == s >= e

\* Lines 106-112: both times are parsed (parse_time leaves the process on a
\* malformed string), then the window is checked.
TrimParse ==
    /\ pc = "Trim"
    /\ LET s == parse_time(args.start_time)
           e == parse_time(args.end_time)
       IN  IF ~s.ok \/ ~e.ok
           THEN /\ pc' = "exited"
                /\ start_sec' = IF s.ok THEN s.val ELSE start_sec
                /\ UNCHANGED <<end_sec, trim_ret>>
           ELSE /\ start_sec' = s.val
                /\ end_sec' = e.val
                /\ IF TrimRejects(s.val, e.val)
                   THEN pc' = "Trim_returned" /\ trim_ret' = 1
                   ELSE pc' = "open_input" /\ UNCHANGED trim_ret
    /\ UNCHANGED <<caller, cfg, args, paths, create_ret>>
    /\ UNCHANGED containerVars
    /\ UNCHANGED relayVars

(***************************************************************************)
(* cleanup (lines 268-279) and the returns of Trim.                        *)
(***************************************************************************)
\* cleanup(in, out): inp and outp are the states of the two containers
\* passed ("NULL" for a null pointer), pb is out->pb and nf is AVFMT_NOFILE.
\* The result gives the states after the call and the library calls made,
\* in order.
cleanup(inp, outp, pb, nf) ==
    LET closePb == outp # "NULL" /\ pb = "open" /\ ~nf
    IN  [in_ctx |-> IF inp # "NULL" THEN "closed" ELSE inp,
         out_ctx |-> IF outp # "NULL" THEN "freed" ELSE outp,
         out_pb |-> IF closePb THEN "closed" ELSE pb,
         events |-> (IF closePb THEN <<"avio_closep">> ELSE <<>>)
                    \o (IF outp # "NULL" THEN <<"avformat_free_context">> ELSE <<>>)
                    \o (IF inp # "NULL" THEN <<"avformat_close_input">> ELSE <<>>)]

\* The state after "events; cleanup(in, out)" where c is cleanup's result.
Cleaned(c, events) ==
    /\ in_ctx' = c.in_ctx
    /\ out_ctx' = c.out_ctx
    /\ out_pb' = c.out_pb
    /\ log' = log \o events \o c.events

\* return code; from Trim.  Trim's locals and stream_ctx end with the call,
\* and with them what the model records of the relay.
TrimReturns(code) ==
    /\ pc' = "Trim_returned"
    /\ trim_ret' = code
    /\ video_stream_idx' = -1
    /\ stream_ctx' = <<>>
    /\ got_video_keyframe' = FALSE
    /\ last_video_dts' = AV_NOPTS_VALUE
    /\ lastOut' = NoPacket
    /\ nOut' = <<>>
    /\ emitDts' = <<>>
    /\ retrim' = NoRetrim

\* The process ends inside Trim, which never returns; its locals end with
\* it.
Aborts ==
    /\ pc' = "aborted"
    /\ UNCHANGED trim_ret
    /\ video_stream_idx' = -1
    /\ stream_ctx' = <<>>
    /\ got_video_keyframe' = FALSE
    /\ last_video_dts' = AV_NOPTS_VALUE
    /\ lastOut' = NoPacket
    /\ nOut' = <<>>
    /\ emitDts' = <<>>
    /\ retrim' = NoRetrim

(***************************************************************************)
(* Container bootstrap (lines 114-164).                                    *)
(***************************************************************************)
\* Line 116, avformat_open_input fails: in stays NULL, Trim returns 1.
OpenInputFails ==
    /\ pc = "open_input"
    /\ TrimReturns(1)
    /\ UNCHANGED <<create_ret>>
    /\ UNCHANGED callVars
    /\ UNCHANGED containerVars
    /\ UNCHANGED last_iter

\* Line 116, avformat_open_input succeeds and avformat_find_stream_info
\* fails: Trim returns 1 (lines 117-118).
FindStreamInfoFails ==
    /\ pc = "open_input"
    /\ in_ctx' = "open"
    /\ log' = log \o <<"avformat_open_input">>
    /\ TrimReturns(1)
    /\ UNCHANGED <<create_ret, in_streams, out_ctx, out_pb, nofile, out_streams>>
    /\ UNCHANGED callVars
    /\ UNCHANGED last_iter

\* Line 116, both calls succeed: the source's streams are known.
OpenInput ==
    /\ pc = "open_input"
    /\ in_ctx' = "open"
    /\ in_streams' = paths.input
    /\ log' = log \o <<"avformat_open_input">>
    /\ pc' = "alloc_output"
    /\ UNCHANGED <<trim_ret, create_ret, out_ctx, out_pb, nofile, out_streams>>
    /\ UNCHANGED callVars
    /\ UNCHANGED relayVars

\* Lines 122-126: avformat_alloc_output_context2 fails (out stays NULL).
AllocOutputFails ==
    /\ pc = "alloc_output"
    /\ Cleaned(cleanup(in_ctx, "NULL", out_pb, nofile), <<>>)
    /\ TrimReturns(1)
    /\ UNCHANGED <<create_ret, in_streams, nofile, out_streams>>
    /\ UNCHANGED callVars
    /\ UNCHANGED last_iter

\* Line 123 succeeds: the output context exists, with the format (and its
\* AVFMT_NOFILE flag) the destination name selects.
AllocOutput ==
    /\ pc = "alloc_output"
    /\ out_ctx' = "allocated"
    /\ nofile' = paths.nofile
    /\ log' = log \o <<"avformat_alloc_output_context2">>
    /\ pc' = "alloc_ctx"
    /\ UNCHANGED <<trim_ret, create_ret, in_ctx, in_streams, out_pb, out_streams>>
    /\ UNCHANGED callVars
    /\ UNCHANGED relayVars

\* Lines 129-134: av_malloc_array fails.
AllocCtxFails ==
    /\ pc = "alloc_ctx"
    /\ Cleaned(cleanup(in_ctx, out_ctx, out_pb, nofile), <<>>)
    /\ TrimReturns(1)
    /\ UNCHANGED <<create_ret, in_streams, nofile, out_streams>>
    /\ UNCHANGED callVars
    /\ UNCHANGED last_iter

\* Line 129 succeeds.
AllocCtx ==
    /\ pc = "alloc_ctx"
    /\ pc' = "setup_streams"
    /\ UNCHANGED <<trim_ret, create_ret>>
    /\ UNCHANGED callVars
    /\ UNCHANGED containerVars
    /\ UNCHANGED relayVars

IsCopied(st) == st.codec_type \in {"audio", "video"}

\* The index recorded at lines 145-147 when stream i is a video stream and
\* the index recorded so far is prev.
RecordVideo(prev, i) == i

RECURSIVE SetupLoop(_, _, _)
\* The loop of lines 136-157 from stream i on, every library call in it
\* succeeding.  acc is the state so far: video_stream_idx, the output
\* streams created (each with the source index it was created from and the
\* time base copied at line 155) and the stream contexts initialised.
SetupLoop(streams, i, acc) ==
    IF i >= Len(streams) THEN acc
    ELSE LET st == streams[i + 1]
             ctx == Append(acc.stream_ctx,
                           [start_pts |-> AV_NOPTS_VALUE,
                            start_dts |-> AV_NOPTS_VALUE])
         IN  IF ~IsCopied(st)
             THEN SetupLoop(streams, i + 1, [acc EXCEPT !.stream_ctx = ctx])
             ELSE SetupLoop(streams, i + 1,
                    [video_stream_idx |->
                         IF st.codec_type = "video"
                         THEN RecordVideo(acc.video_stream_idx, i)
                         ELSE acc.video_stream_idx,
                     out_streams |->
                         Append(acc.out_streams,
                                [src |-> i, time_base |-> st.time_base]),
                     stream_ctx |-> ctx])

SetupResult ==
    SetupLoop(in_streams, 0,
              [video_stream_idx |-> video_stream_idx,
               out_streams |-> <<>>, stream_ctx |-> <<>>])

\* Lines 136-157, all streams set up.
SetupStreams ==
    /\ pc = "setup_streams"
    /\ video_stream_idx' = SetupResult.video_stream_idx
    /\ out_streams' = SetupResult.out_streams
    /\ stream_ctx' = SetupResult.stream_ctx
    /\ nOut' = [i \in 1..Len(in_streams) |-> 0]
    /\ UNCHANGED emitDts
    /\ retrim' = [NoRetrim EXCEPT !.stream_ctx = SetupResult.stream_ctx]
    /\ pc' = "open_output"
    /\ UNCHANGED <<trim_ret, create_ret, in_ctx, in_streams, out_ctx, out_pb,
                   nofile, log>>
    /\ UNCHANGED <<got_video_keyframe, last_video_dts, last_iter, lastOut>>
    /\ UNCHANGED callVars

\* Lines 149-154: avformat_new_stream or avcodec_parameters_copy fails for a
\* copied stream.
SetupStreamsFails ==
    /\ pc = "setup_streams"
    /\ \E i \in 1..Len(in_streams) : IsCopied(in_streams[i])
    /\ Cleaned(cleanup(in_ctx, out_ctx, out_pb, nofile), <<>>)
    /\ TrimReturns(1)
    /\ UNCHANGED <<create_ret, in_streams, nofile, out_streams>>
    /\ UNCHANGED callVars
    /\ UNCHANGED last_iter

\* Line 160: avio_open fails (out->pb stays NULL).
AvioOpenFails ==
    /\ pc = "open_output"
    /\ Cleaned(cleanup(in_ctx, out_ctx, out_pb, nofile), <<>>)
    /\ TrimReturns(1)
    /\ UNCHANGED <<create_ret, in_streams, nofile, out_streams>>
    /\ UNCHANGED callVars
    /\ UNCHANGED last_iter

\* Line 160: avio_open succeeds and avformat_write_header fails.
WriteHeaderFails ==
    /\ pc = "open_output"
    /\ Cleaned(cleanup(in_ctx, out_ctx, "open", nofile), <<"avio_open">>)
    /\ TrimReturns(1)
    /\ UNCHANGED <<create_ret, in_streams, nofile, out_streams>>
    /\ UNCHANGED callVars
    /\ UNCHANGED last_iter

\* Line 160: the destination is open and the header is written.
OpenOutput ==
    /\ pc = "open_output"
    /\ out_pb' = "open"
    /\ log' = log \o <<"avio_open", "avformat_write_header">>
    /\ pc' = "seek"
    /\ UNCHANGED <<trim_ret, create_ret, in_ctx, in_streams, out_ctx, nofile,
                   out_streams>>
    /\ UNCHANGED callVars
    /\ UNCHANGED relayVars

(***************************************************************************)
(* Seek (lines 166-174).                                                   *)
(***************************************************************************)
\* in->streams[video_stream_idx] of line 168 is a stream of the source.
SeekStreamValid == video_stream_idx >= 0 /\ video_stream_idx < Len(in_streams)

\* Line 169: av_seek_frame fails.  (With no valid stream index line 168
\* reads outside in->streams; a failed seek is one of its outcomes.)
SeekFails ==
    /\ pc = "seek"
    /\ Cleaned(cleanup(in_ctx, out_ctx, out_pb, nofile), <<>>)
    /\ TrimReturns(1)
    /\ UNCHANGED <<create_ret, in_streams, nofile, out_streams>>
    /\ UNCHANGED callVars
    /\ UNCHANGED last_iter

\* Line 169: the seek succeeds; the read loop is entered.
Seek ==
    /\ pc = "seek"
    /\ pc' = "read"
    /\ UNCHANGED <<trim_ret, create_ret>>
    /\ UNCHANGED callVars
    /\ UNCHANGED containerVars
    /\ UNCHANGED relayVars

\* Line 168 with video_stream_idx = -1: the read outside in->streams ends
\* the process.
SeekCrashes ==
    /\ pc = "seek"
    /\ ~SeekStreamValid
    /\ Aborts
    /\ UNCHANGED <<create_ret, last_iter>>
    /\ UNCHANGED callVars
    /\ UNCHANGED containerVars

(***************************************************************************)
(* Packet relay (lines 176-248).                                           *)
(***************************************************************************)
\* Lines 191-193: the timestamp the window test uses.
WindowTs(pkt) == IF pkt.pts = AV_NOPTS_VALUE THEN pkt.dts ELSE pkt.pts

\* Variant of AtOrPastEnd that lets a packet exactly at the end through.
AtOrPastEnd_Strict(pkt, tb, e) == WindowTs(pkt) * tb.num > e * tb.den

\* Line 195: pts_seconds >= end_sec, with pts_seconds = ts * num / den.
AtOrPastEnd(pkt, tb, e) == WindowTs(pkt) * tb.num >= e * tb.den

\* Line 200: pts_seconds < start_sec.
BeforeStart(pkt, tb, s) == WindowTs(pkt) * tb.num < s * tb.den

\* Variant of Gated in which the gate never opens.
Gated_NeverOpens(idx, vidx, got) == idx = vidx

\* Line 205: the packet is subject to the keyframe gate.
Gated(idx, vidx, got) == idx = vidx /\ ~got

\* Variant of CapturesOrigin with the test of line 213 inverted.
CapturesOrigin_Inverted(c) == c.start_pts # AV_NOPTS_VALUE

\* Line 213: the stream's origin is captured from this packet.
CapturesOrigin(c) == c.start_pts = AV_NOPTS_VALUE

\* Line 224 and line 232: the stream whose dts is kept increasing and whose
\* pts is raised to its dts.
IsRepaired(idx, vidx) == idx = vidx

\* Line 225: the dts is forced past the last one.
NeedsBump(dts, last) == last # AV_NOPTS_VALUE /\ dts <= last

\* Lines 213-236 for an accepted packet of a stream whose context is c:
\* origin capture, origin subtraction, dts monotonicity, pts >= dts repair.
\* repaired says whether the stream is the one of lines 224 and 232, last
\* is last_video_dts.  The arithmetic is that of the integer width;
\* overflow says whether a signed operation left it.
Renormalize(pkt, c, repaired, last) ==
    LET c1 == IF CapturesOrigin(c)
              THEN [start_pts |-> pkt.pts, start_dts |-> pkt.dts]
              ELSE c
        rawPts == pkt.pts - c1.start_pts
        pts1 == IF pkt.pts # AV_NOPTS_VALUE THEN Wrap(rawPts) ELSE pkt.pts
        rawDts == pkt.dts - c1.start_dts
        dts1 == IF pkt.dts # AV_NOPTS_VALUE THEN Wrap(rawDts) ELSE pkt.dts
        bump == /\ pkt.dts # AV_NOPTS_VALUE
                /\ repaired
                /\ NeedsBump(dts1, last)
        dts2 == IF bump THEN Wrap(last + 1) ELSE dts1
        last1 == IF pkt.dts # AV_NOPTS_VALUE /\ repaired THEN dts2 ELSE last
        pts2 == IF /\ repaired
                   /\ pts1 # AV_NOPTS_VALUE
                   /\ dts2 # AV_NOPTS_VALUE
                   /\ pts1 < dts2
                THEN dts2 ELSE pts1
    IN  [ctx |-> c1, pts |-> pts2, dts |-> dts2, last |-> last1,
         overflow |-> \/ (pkt.pts # AV_NOPTS_VALUE /\ ~InRange(rawPts))
                      \/ (pkt.dts # AV_NOPTS_VALUE /\ ~InRange(rawDts))
                      \/ (bump /\ ~InRange(last + 1))]

\* av_rescale_q(a, bq, cq) for a >= 0: a * bq / cq rounded to nearest.
RescaleQ(a, bq, cq) ==
    LET n == a * bq.num * cq.den
        d == bq.den * cq.num
    IN  (2 * n + d) \div (2 * d)

\* Line 238: out->streams[stream_idx] is a stream of the output.
OutStreamValid(idx) == idx < Len(out_streams)

\* Variant of Verdict without the end-of-window test of lines 195-198.
Verdict_NoEndCheck(pkt) ==
    LET idx == pkt.stream_index
        st == in_streams[idx + 1]
    IN  IF ~IsCopied(st) THEN "skip_kind"
        ELSE IF BeforeStart(pkt, st.time_base, start_sec) THEN "skip_start"
        ELSE IF Gated(idx, video_stream_idx, got_video_keyframe) /\ ~pkt.flags_key
             THEN "skip_gate"
        ELSE "accept"

\* What one iteration of the loop does with packet pkt, up to the write
\* (lines 182-211).
Verdict(pkt) ==
    LET idx == pkt.stream_index
        st == in_streams[idx + 1]
    IN  IF ~IsCopied(st) THEN "skip_kind"
        ELSE IF AtOrPastEnd(pkt, st.time_base, end_sec) THEN "break_end"
        ELSE IF BeforeStart(pkt, st.time_base, start_sec) THEN "skip_start"
        ELSE IF Gated(idx, video_stream_idx, got_video_keyframe) /\ ~pkt.flags_key
             THEN "skip_gate"
        ELSE "accept"

\* The presentation time of pkt, in seconds, lies in [s, e).
InWindow(pkt, tb, s, e) ==
    LET t == IF pkt.pts # AV_NOPTS_VALUE THEN pkt.pts ELSE pkt.dts
    IN  s * tb.den <= t * tb.num /\ t * tb.num < e * tb.den

RECURSIVE SumSeq(_)
SumSeq(q) == IF q = <<>> THEN 0 ELSE Head(q) + SumSeq(Tail(q))

\* The number of packets written so far.
Written == SumSeq(nOut)

\* Line 255: the value Trim returns after the loop was left for cause.
LoopResult(cause) == 0

\* Variant of Trailer that skips the trailer after a failed write.
Trailer_NotAfterWriteFail(cause) ==
    IF cause = "write_fail" THEN <<>> ELSE <<"av_write_trailer">>

\* The library calls of line 250, the loop left for cause.
Trailer(cause) == <<"av_write_trailer">>

\* The loop is left for cause ("eof", "break_end" or "write_fail"), and
\* lines 250-255 follow: trailer, av_free, cleanup, return.
LeaveLoop(cause) ==
    /\ last_iter' = cause
    /\ Cleaned(cleanup(in_ctx, out_ctx, out_pb, nofile), Trailer(cause))
    /\ TrimReturns(LoopResult(cause))
    /\ UNCHANGED <<create_ret, in_streams, nofile, out_streams>>
    /\ UNCHANGED callVars

\* The state lines 205-236 leave behind for an accepted packet.
Accepted(pkt, r) ==
    /\ got_video_keyframe' =
           (got_video_keyframe \/ pkt.stream_index = video_stream_idx)
    /\ stream_ctx' = [stream_ctx EXCEPT ![pkt.stream_index + 1] = r.ctx]
    /\ last_video_dts' = r.last

\* Line 181: av_read_frame reports the end of the input (or an error).
ReadEnd ==
    /\ pc = "read"
    /\ LeaveLoop("eof")

\* Lines 181-197: a packet at or past the end of the window (break).
ReadPastEnd(pkt) ==
    /\ pc = "read"
    /\ Verdict(pkt) = "break_end"
    /\ LeaveLoop("break_end")

\* Lines 181-211: a packet that is discarded (continue at line 188, 202 or
\* 208).
ReadDiscard(pkt) ==
    /\ pc = "read"
    /\ Verdict(pkt) \in {"skip_kind", "skip_start", "skip_gate"}
    /\ last_iter' = Verdict(pkt)
    /\ UNCHANGED <<pc, trim_ret, create_ret>>
    /\ UNCHANGED <<video_stream_idx, stream_ctx, got_video_keyframe,
                   last_video_dts, lastOut, nOut, emitDts, retrim>>
    /\ UNCHANGED callVars
    /\ UNCHANGED containerVars

\* The streams of the container Trim writes, as a second Trim finds them
\* when that container is its source.
RetrimStreams ==
    [i \in 1..Len(out_streams) |->
        [codec_type |-> in_streams[out_streams[i].src + 1].codec_type,
         time_base |-> out_streams[i].time_base]]

\* video_stream_idx of the second Trim (lines 136-157 on RetrimStreams).
RetrimVideoIdx ==
    SetupLoop(RetrimStreams, 0,
              [video_stream_idx |-> -1, out_streams |-> <<>>,
               stream_ctx |-> <<>>]).video_stream_idx

\* The window of the second Trim is [0, T], T the length of the first
\* one's window, given as Create gives it: formatted, then parsed.
RetrimStart == parse_time(FormatTime(0)).val
RetrimEnd == parse_time(FormatTime(end_sec - start_sec)).val

\* One iteration of the second Trim's loop (lines 182-236) on packet w, the
\* packet the first Trim has just written; rt is the second Trim's state.
\* same stays TRUE as long as the second Trim writes each packet it reads
\* with the pts and dts it read.
Retrim(rt, w) ==
    LET idx == w.stream_index
        tb == RetrimStreams[idx + 1].time_base
        repaired == IsRepaired(idx, RetrimVideoIdx)
    IN  IF ~rt.same THEN rt
        ELSE IF \/ AtOrPastEnd(w, tb, RetrimEnd)
                \/ BeforeStart(w, tb, RetrimStart)
                \/ (Gated(idx, RetrimVideoIdx, rt.got_video_keyframe) /\ ~w.flags_key)
             THEN RetrimDiverged
        ELSE LET r == Renormalize(w, rt.stream_ctx[idx + 1], repaired,
                                  rt.last_video_dts)
             IN  IF r.overflow \/ r.pts # w.pts \/ r.dts # w.dts
                 THEN RetrimDiverged
                 ELSE [same |-> TRUE,
                       stream_ctx |-> [rt.stream_ctx EXCEPT ![idx + 1] = r.ctx],
                       got_video_keyframe |->
                           (rt.got_video_keyframe \/ idx = RetrimVideoIdx),
                       last_video_dts |-> r.last]

\* Lines 181-247: a packet that is accepted, renormalised and written.
ReadWrite(pkt) ==
    /\ pc = "read"
    /\ Written < MaxWrites
    /\ Verdict(pkt) = "accept"
    /\ OutStreamValid(pkt.stream_index)
    /\ LET idx == pkt.stream_index
           r == Renormalize(pkt, stream_ctx[idx + 1],
                            IsRepaired(idx, video_stream_idx), last_video_dts)
           o == out_streams[idx + 1]
       IN  /\ Accepted(pkt, r)
           /\ lastOut' = [stream_index |-> idx,
                          pts |-> r.pts, dts |-> r.dts,
                          flags_key |-> pkt.flags_key,
                          duration |-> RescaleQ(pkt.duration,
                                                in_streams[idx + 1].time_base,
                                                o.time_base),
                          created_from |-> o.src,
                          src_has_pts |-> pkt.pts # AV_NOPTS_VALUE,
                          src_has_dts |-> pkt.dts # AV_NOPTS_VALUE,
                          in_window |-> InWindow(pkt, in_streams[idx + 1].time_base,
                                                 start_sec, end_sec)]
           /\ nOut' = [nOut EXCEPT ![idx + 1] = @ + 1]
           /\ emitDts' = IF idx = video_stream_idx /\ r.dts # AV_NOPTS_VALUE
                         THEN <<r.dts>>
                         ELSE emitDts
           /\ retrim' = Retrim(retrim, [stream_index |-> idx,
                                        pts |-> r.pts, dts |-> r.dts,
                                        flags_key |-> pkt.flags_key])
    /\ last_iter' = "accept"
    /\ UNCHANGED <<pc, trim_ret, create_ret, video_stream_idx>>
    /\ UNCHANGED callVars
    /\ UNCHANGED containerVars

\* Lines 181-245: a packet that is accepted and renormalised, and whose
\* write fails (break at line 244).  A stream index outside out->streams
\* is refused by av_interleaved_write_frame.
ReadWriteFails(pkt) ==
    /\ pc = "read"
    /\ Verdict(pkt) = "accept"
    /\ LeaveLoop("write_fail")

\* An accepted packet on which the iteration leaves defined behaviour: a
\* signed overflow in lines 219-226, or line 238 reading outside
\* out->streams.  Besides the wrapped result (ReadWrite, ReadWriteFails),
\* the build can end the process there.
ReadCrashes(pkt) ==
    /\ pc = "read"
    /\ Verdict(pkt) = "accept"
    /\ LET idx == pkt.stream_index
           r == Renormalize(pkt, stream_ctx[idx + 1],
                            IsRepaired(idx, video_stream_idx), last_video_dts)
       IN  r.overflow \/ ~OutStreamValid(idx)
    /\ Aborts
    /\ last_iter' = "crash"
    /\ UNCHANGED create_ret
    /\ UNCHANGED callVars
    /\ UNCHANGED containerVars

(***************************************************************************)
(* The return to the caller.                                               *)
(***************************************************************************)
\* Line 77: Create's test of Trim's result.
TrimFailed(ret) == ret # 0

\* Lines 77-87: Create maps Trim's result to its own; a Trim called on its
\* own hands its result to its caller.
Return ==
    /\ pc = "Trim_returned"
    /\ pc' = "done"
    /\ create_ret' = IF caller = "Create"
                     THEN IF TrimFailed(trim_ret)
                          THEN "VLC_EGENERIC" ELSE "VLC_SUCCESS"
                     ELSE create_ret
    /\ UNCHANGED trim_ret
    /\ UNCHANGED callVars
    /\ UNCHANGED containerVars
    /\ UNCHANGED relayVars

(***************************************************************************)
(* The specification.                                                      *)
(***************************************************************************)
Next ==
    \/ \E s \in CfgTimes, e \in CfgTimes, g \in BOOLEAN, io \in Paths :
           Create(s, e, g, io)
    \/ \E s \in TimeStrings, e \in TimeStrings, io \in Paths : CallTrim(s, e, io)
    \/ TrimParse
    \/ OpenInputFails
    \/ FindStreamInfoFails
    \/ OpenInput
    \/ AllocOutputFails
    \/ AllocOutput
    \/ AllocCtxFails
    \/ AllocCtx
    \/ SetupStreams
    \/ SetupStreamsFails
    \/ AvioOpenFails
    \/ WriteHeaderFails
    \/ OpenOutput
    \/ SeekFails
    \/ Seek
    \/ SeekCrashes
    \/ ReadEnd
    \/ \E pkt \in Packets(in_streams) : ReadPastEnd(pkt)
    \/ \E pkt \in Packets(in_streams) : ReadDiscard(pkt)
    \/ \E pkt \in Packets(in_streams) : ReadWrite(pkt)
    \/ \E pkt \in Packets(in_streams) : ReadWriteFails(pkt)
    \/ \E pkt \in Packets(in_streams) : ReadCrashes(pkt)
    \/ Return

Spec == Init /\ [][Next]_vars

(***************************************************************************)
(* Properties.                                                             *)
(***************************************************************************)
\* The number of times library call e was made.
Calls(e) == Cardinality({i \in 1..Len(log) : log[i] = e})

\* Every call of a precedes every call of b.
Precedes(a, b) ==
    \A i, j \in 1..Len(log) : (log[i] = a /\ log[j] = b) => i < j

Returned == pc \in {"Trim_returned", "done"}
LoopLeft == last_iter \in {"eof", "break_end", "write_fail"}
Emitted == lastOut # NoPacket
Defined(t) == t # AV_NOPTS_VALUE

\* lastOut is the first packet written on its stream.
FirstOnStream == Emitted /\ nOut[lastOut.stream_index + 1] = 1

VideoStreams == {i \in 1..Len(in_streams) : in_streams[i].codec_type = "video"}

\* The number of video packets written so far.
VideoWritten == SumSeq([i \in 1..Len(nOut) |-> IF i \in VideoStreams THEN nOut[i] ELSE 0])

\* C1: once the read loop was entered, the trailer is written exactly once
\* when the loop is left, whatever the cause (end of input, a packet at or
\* past the window end, a failed write), on the output that is still open,
\* and never before the loop is left; Trim is then out of the loop, so no
\* packet is written after the trailer.
C1_TrailerOnceAfterLoop ==
    /\ LoopLeft =>
         /\ Calls("av_write_trailer") = 1
         /\ Returned
         /\ Precedes("av_write_trailer", "avio_closep")
         /\ Precedes("av_write_trailer", "avformat_free_context")
    /\ (~LoopLeft) => Calls("av_write_trailer") = 0
    /\ Calls("av_write_trailer") >= 1 => pc # "read"

C1_Witness ==
    /\ pc = "done"
    /\ last_iter = "write_fail"
    /\ Calls("av_write_trailer") = 1
    /\ Calls("avformat_free_context") = 1

\* C2: the defined dts values written on the primary video stream (the
\* stream Trim recorded in video_stream_idx) are strictly increasing: each
\* one written is greater than the one written before it.
C2_DtsStrictlyIncreasing ==
    [][ ( /\ pc = "read" /\ pc' = "read"
          /\ Written' = Written + 1
          /\ lastOut'.stream_index = video_stream_idx
          /\ Defined(lastOut'.dts)
          /\ emitDts # <<>> )
        => lastOut'.dts > emitDts[1] ]_vars

\* C3: every packet written, on whatever stream, has pts >= dts when both
\* are defined.
C3_PtsNotBeforeDts ==
    (Emitted /\ Defined(lastOut.pts) /\ Defined(lastOut.dts))
        => lastOut.pts >= lastOut.dts

\* C4 as stated: the first packet written on each stream has pts = 0 and
\* dts = 0, whatever timestamps, defined or not, it had in the source.
C4_FirstPacketZero ==
    FirstOnStream => (lastOut.pts = 0 /\ lastOut.dts = 0)

\* C4 amended: of the first packet written on each stream, each timestamp
\* that was defined in the source is 0 and each that was undefined in the
\* source is still undefined.
C4_FirstPacketZeroWhereDefined ==
    FirstOnStream =>
        /\ lastOut.pts = (IF lastOut.src_has_pts THEN 0 ELSE AV_NOPTS_VALUE)
        /\ lastOut.dts = (IF lastOut.src_has_dts THEN 0 ELSE AV_NOPTS_VALUE)

C4_Witness ==
    /\ FirstOnStream
    /\ start_sec = 1
    /\ lastOut.src_has_pts /\ lastOut.pts = 0
    /\ ~lastOut.src_has_dts /\ lastOut.dts = AV_NOPTS_VALUE

\* C5: the first video packet written to the output is a key packet,
\* whatever the streams of the source are.
C5_FirstVideoIsKey ==
    ( /\ Emitted
      /\ (lastOut.stream_index + 1) \in VideoStreams
      /\ VideoWritten = 1 )
        => lastOut.flags_key

\* C6: every packet written has a source presentation time (pts, or dts
\* when pts is undefined, times the time base) with start <= time < end,
\* and after a packet before the start is discarded the loop goes on.
C6_OnlyWindowPackets ==
    /\ Emitted => lastOut.in_window
    /\ last_iter = "skip_start" => pc = "read"

C6_Witness ==
    /\ pc = "read"
    /\ start_sec = 1
    /\ Emitted /\ lastOut.in_window
    /\ last_iter = "skip_start"

\* C7: whenever Trim returns after the source container was opened, the
\* input was closed exactly once and the output, if it was allocated, was
\* freed exactly once, its I/O handle, if opened, closed once before that.
C7_ReleasedOnEveryExit ==
    (Returned /\ Calls("avformat_open_input") = 1) =>
        /\ Calls("avformat_close_input") = 1
        /\ Calls("avformat_alloc_output_context2") = 1 =>
             /\ Calls("avformat_free_context") = 1
             /\ Calls("avio_open") = 1 =>
                  /\ Calls("avio_closep") = 1
                  /\ Precedes("avio_closep", "avformat_free_context")

\* The window the caller gave has start >= end.
InvalidWindow ==
    \/ caller = "Create" /\ cfg.start_time >= cfg.end_time
    \/ /\ caller = "Trim"
       /\ parse_time(args.start_time).ok
       /\ parse_time(args.end_time).ok
       /\ parse_time(args.start_time).val >= parse_time(args.end_time).val

\* C8: for a window with start >= end the operation fails before any
\* container is opened: no library call on a container is ever made, and
\* the result is a failure.
C8_InvalidWindowOpensNothing ==
    InvalidWindow =>
        /\ log = <<>>
        /\ in_ctx = "NULL" /\ out_ctx = "NULL" /\ out_pb = "NULL"
        /\ pc \in {"idle", "Trim", "Trim_returned", "done"}
        /\ pc = "Trim_returned" => trim_ret = 1
        /\ (pc = "done" /\ caller = "Create") => create_ret = "VLC_EGENERIC"
        /\ (pc = "done" /\ caller = "Trim") => trim_ret = 1

C8_Witness ==
    /\ pc = "done"
    /\ caller = "Create"
    /\ cfg.start_time > cfg.end_time
    /\ create_ret = "VLC_EGENERIC"
    /\ log = <<>>

\* C9: after a failed packet write Trim has written the trailer and returns
\* a failure, which Create reports as a failure.
C9_WriteFailureReported ==
    (last_iter = "write_fail" /\ Returned) =>
        /\ Calls("av_write_trailer") = 1
        /\ trim_ret # 0
        /\ (pc = "done" /\ caller = "Create") => create_ret = "VLC_EGENERIC"

\* The first video stream in source order.
FirstVideo(streams) ==
    CHOOSE i \in 0..(Len(streams) - 1) :
        /\ streams[i + 1].codec_type = "video"
        /\ \A j \in 0..(i - 1) : streams[j + 1].codec_type # "video"

\* C10: once the streams are set up, the primary stream (video_stream_idx,
\* used for the seek, the keyframe gate and the dts order) is the first
\* video stream of the source.
C10_PrimaryIsFirstVideo ==
    (pc \in {"open_output", "seek", "read"} /\ VideoStreams # {})
        => video_stream_idx = FirstVideo(in_streams)

\* C11: with a source that has no video stream, the seek step (lines
\* 167-169) does not index in->streams with the index that was never set,
\* no packet is held back by the keyframe gate, and the relay is entered
\* whenever the seek succeeds.
C11_NoUnsetIndexAccess ==
    [][ ( /\ pc = "seek"
          /\ pc' # "seek"
          /\ VideoStreams = {} )
        => ( /\ SeekStreamValid
             /\ pc' \in {"read", "Trim_returned"} ) ]_vars

\* Line 200 negated for the packet's own time: the presentation time of pkt
\* is at or before second s.
AtOrBeforeStart(pkt, tb, s) == WindowTs(pkt) * tb.num <= s * tb.den

\* C12: the first packet written on the primary video stream is a key
\* packet whose source presentation time is at or before the window start:
\* when no key packet lies exactly on the start, the one before it.
C12_SnapsBackToKeyframe ==
    [][ \A pkt \in Packets(in_streams) :
          ( /\ ReadWrite(pkt)
            /\ pkt.stream_index = video_stream_idx
            /\ ~got_video_keyframe )
          => ( /\ pkt.flags_key
               /\ AtOrBeforeStart(pkt, in_streams[pkt.stream_index + 1].time_base,
                                  start_sec) ) ]_vars

(***************************************************************************)
(* The time round trip: Create formats a number of seconds (lines 73-75)   *)
(* and Trim parses the string back (lines 106-107).                        *)
(***************************************************************************)
\* Largest number of seconds formatted and parsed back; past 5999 the
\* minutes field has three digits.
MaxRoundTrip == 6100
RoundTripTimes == 0..MaxRoundTrip

\* Create is called with start = n and end = n + 1 seconds, then Trim
\* parses the two strings Create formatted.
RoundTripNext ==
    \/ \E n \in RoundTripTimes :
           Create(n, n + 1, TRUE, [input |-> <<Stream("video", 1)>>, nofile |-> FALSE])
    \/ TrimParse

RoundTripSpec == Init /\ [][RoundTripNext]_vars

\* C13: for every number of seconds n from 0 to the bound, the string
\* Create formats from n ("%02d:%02d" of n / 60 and n % 60) is one that
\* parse_time accepts and turns back into n.
C13_ParseInvertsFormat ==
    (caller = "Create" /\ pc \in {"Trim", "open_input"}) =>
        /\ parse_time(FormatTime(cfg.start_time)) = [ok |-> TRUE, val |-> cfg.start_time]
        /\ parse_time(FormatTime(cfg.end_time)) = [ok |-> TRUE, val |-> cfg.end_time]
        /\ pc = "open_input" =>
             (start_sec = cfg.start_time /\ end_sec = cfg.end_time)

C13_Witness ==
    /\ pc = "open_input"
    /\ caller = "Create"
    /\ cfg.start_time = 6000
    /\ args.start_time = <<"1", "0", "0", ":", "0", "0">>
    /\ start_sec = 6000
    /\ end_sec = 6001

\* The string is exactly two integer fields separated by ':': one or more
\* digits, a colon, one or more digits, and nothing else.
IsTwoFields(s) ==
    \E k \in 2..(Len(s) - 1) :
        /\ s[k] = ":"
        /\ \A i \in 1..Len(s) : i # k => IsDigit(s[i])

\* C14: when one of the two time strings given to Trim is not exactly two
\* integer fields separated by ':', parse_time fails: Trim goes no further
\* than the parse (the process is left there), and no container was opened
\* and no output created.
C14_MalformedTimeRejected ==
    ( /\ caller = "Trim"
      /\ pc \notin {"idle", "Trim"}
      /\ ~(IsTwoFields(args.start_time) /\ IsTwoFields(args.end_time)) )
    => ( /\ pc = "exited"
         /\ trim_ret = -1
         /\ log = <<>>
         /\ in_ctx = "NULL" /\ out_ctx = "NULL" /\ out_pb = "NULL" )

\* C15: a second Trim with window [0, T], T the length of the first
\* window, that reads the packets the first Trim wrote, in the order they
\* were written, writes every one of them, each with the pts and dts it
\* read: the same number of packets per stream, the same timestamps.
C15_RetrimIdempotent == retrim.same

\* pkt belongs to a copied stream and its presentation time is at or past
\* the end of the window.
PastEndOfCopied(pkt) ==
    LET st == in_streams[pkt.stream_index + 1]
    IN  IsCopied(st) /\ AtOrPastEnd(pkt, st.time_base, end_sec)

\* C16: while the loop runs, the only iteration possible on a packet of a
\* copied stream at or past the window end is the one that leaves the loop
\* (the break of line 197): the packet is neither discarded with the loop
\* going on nor written, whatever its stream and whatever the other streams
\* still hold.  Once the loop was left for that cause nothing was written
\* by that iteration, the trailer follows and Trim has returned: no later
\* packet is read or written.
C16_EndBreakStopsLoop ==
    /\ pc = "read" =>
         \A pkt \in Packets(in_streams) :
             PastEndOfCopied(pkt) =>
                 /\ Verdict(pkt) = "break_end"
                 /\ ENABLED ReadPastEnd(pkt)
                 /\ ~ENABLED ReadDiscard(pkt)
                 /\ ~ENABLED ReadWrite(pkt)
                 /\ ~ENABLED ReadWriteFails(pkt)
    /\ last_iter = "break_end" =>
         /\ Returned
         /\ lastOut = NoPacket
         /\ Calls("av_write_trailer") = 1

C16_Witness ==
    /\ pc = "Trim_returned"
    /\ last_iter = "break_end"
    /\ in_streams = <<Stream("video", 1), Stream("audio", 2)>>
    /\ Calls("av_write_trailer") = 1
    /\ Calls("avformat_close_input") = 1

\* The origin of a stream no packet of which was accepted yet (lines
\* 138-139).
UnsetOrigin == [start_pts |-> AV_NOPTS_VALUE, start_dts |-> AV_NOPTS_VALUE]

\* C17: while the loop runs, the origin of a stream is unset as long as no
\* packet of the stream was accepted, and an iteration changes the origin
\* of a stream only when it accepts the first packet of that stream: once
\* a packet of the stream was accepted (whether or not it had a pts), no
\* later packet changes start_pts or start_dts.
C17_OriginSetOnce ==
    [][ (pc = "read" /\ pc' = "read") =>
          \A i \in 1..Len(stream_ctx) :
              /\ nOut[i] = 0 => stream_ctx[i] = UnsetOrigin
              /\ nOut[i] >= 1 => stream_ctx'[i] = stream_ctx[i] ]_vars

\* The packets of the primary video stream whose presentation time is
\* inside the window.
PrimaryInWindow ==
    { pkt \in Packets(in_streams) :
        /\ pkt.stream_index = video_stream_idx
        /\ InWindow(pkt, in_streams[pkt.stream_index + 1].time_base,
                    start_sec, end_sec) }

\* C18: while the loop runs on a source with a primary video stream, the
\* gate is closed exactly as long as no packet of that stream was written.
\* While it is closed the stream's origin is still unset, an in-window
\* packet of the stream that is not a key packet can only be discarded, and
\* an in-window key packet is accepted; the first packet written on the
\* stream is a key packet.  Once a packet of the stream was written the
\* gate is open and stays open: every in-window packet of the stream, key
\* or not, is accepted and none can be discarded.
C18_GateOneShot ==
    (pc = "read" /\ video_stream_idx >= 0) =>
        LET v == video_stream_idx + 1
        IN  /\ got_video_keyframe <=> nOut[v] >= 1
            /\ ~got_video_keyframe =>
                 /\ stream_ctx[v] = UnsetOrigin
                 /\ \A pkt \in PrimaryInWindow :
                        IF pkt.flags_key
                        THEN Verdict(pkt) = "accept"
                        ELSE /\ Verdict(pkt) = "skip_gate"
                             /\ ENABLED ReadDiscard(pkt)
                             /\ ~ENABLED ReadWrite(pkt)
                             /\ ~ENABLED ReadWriteFails(pkt)
            /\ (nOut[v] = 1 /\ lastOut.stream_index = video_stream_idx) =>
                 lastOut.flags_key
            /\ got_video_keyframe =>
                 \A pkt \in PrimaryInWindow :
                     /\ Verdict(pkt) = "accept"
                     /\ ~ENABLED ReadDiscard(pkt)

C18_Witness ==
    /\ pc = "read"
    /\ video_stream_idx >= 0
    /\ got_video_keyframe
    /\ nOut[video_stream_idx + 1] >= 2
    /\ lastOut.stream_index = video_stream_idx
    /\ ~lastOut.flags_key
    /\ last_iter = "accept"

\* The step is an iteration of the read loop that accepts packet pkt and
\* goes through the renormalisation and the output-stream lookup of lines
\* 213-238.
Accepts(pkt) ==
    \/ ReadWrite(pkt)
    \/ ReadWriteFails(pkt)
    \/ ReadCrashes(pkt)

\* C19: for every accepted packet the lookup out->streams[stream_idx] of
\* line 238 is inside the output's streams and finds the output stream that
\* was created from the packet's source stream, whatever the streams of the
\* source are; a packet that is written is written to that stream.
C19_OutputStreamOfPacket ==
    [][ \A pkt \in Packets(in_streams) :
          (pc = "read" /\ Verdict(pkt) = "accept" /\ Accepts(pkt)) =>
              /\ OutStreamValid(pkt.stream_index)
              /\ out_streams[pkt.stream_index + 1].src = pkt.stream_index
              /\ lastOut' # NoPacket =>
                   lastOut'.created_from = lastOut'.stream_index ]_vars

\* C20: whenever an accepted packet has a defined pts (dts), the origin
\* subtracted from it at line 219 (222) is a defined timestamp and not
\* AV_NOPTS_VALUE, and the difference is inside the integer range; so it
\* is also when the first accepted packet of the stream had no pts or no
\* dts.
C20_OriginDefinedWhenSubtracted ==
    [][ \A pkt \in Packets(in_streams) :
          (pc = "read" /\ Verdict(pkt) = "accept" /\ Accepts(pkt)) =>
              LET c == stream_ctx[pkt.stream_index + 1]
                  o == IF CapturesOrigin(c)
                       THEN [start_pts |-> pkt.pts, start_dts |-> pkt.dts]
                       ELSE c
              IN  /\ Defined(pkt.pts) =>
                       (Defined(o.start_pts) /\ InRange(pkt.pts - o.start_pts))
                  /\ Defined(pkt.dts) =>
                       (Defined(o.start_dts) /\ InRange(pkt.dts - o.start_dts)) ]_vars

====
